---- MODULE Spec2Model ----
(***************************************************************************)
(* Character-level RNN notebooks (intro-to-rnns/Anna KaRNNa.ipynb and      *)
(* tensorboard/Anna KaRNNa Name Scoped.ipynb): the batching code           *)
(* (split_data, get_batch), the training loop, and the sampler             *)
(* (pick_top_n, sample).                                                   *)
(*                                                                         *)
(* Conventions.  numpy arrays are sequences (1-based here, 0-based in the  *)
(* source: the slicing operators take the source's 0-based bounds).  A 2-D *)
(* array is a sequence of rows.  split_frac is a rational [num, den] and   *)
(* int(...) of a non-negative quotient is \div: floating-point rounding of *)
(* the products and quotients is not modelled.  The network is opaque: a   *)
(* model call returns an arbitrary probability vector and a fresh state    *)
(* token.                                                                  *)
(***************************************************************************)
EXTENDS Integers, Sequences, FiniteSets, TLC

\* ------------------------------------------------------------------ bounds
MaxLen == 7
MaxBatch == 2
MaxSteps == 3
FracDen == 4
MaxTrainLen == 10
MaxEpochs == 2
MaxSaveEvery == 3
MaxVocab == 4
MaxWeight == 2
MaxTopN == 5
MaxPrime == 2
MaxSamples == 2
MaxRepeatLen == 5

\* ------------------------------------------------------------------ state
VARIABLES
    \* split_data's arguments, position and results
    chars, batch_size, num_steps, split_frac, pc, train_x, train_y, val_x, val_y,
    \* what a second call of split_data with the same arguments has returned
    again,
    \* one get_batch generator: its arguments, its loop index, what it has yielded
    gb_arrs, gb_num_steps, gb_b, gb_pc, gb_yielded,
    \* the generator before this one, once a fresh call has replaced it
    gb_prev,
    \* the training cell: its settings, its loop variables and position, the
    \* checkpoints written and the model calls made so far
    epochs, save_every_n, n_batches, iterations, e, b, iteration, new_state,
    tpc, vb, val_loss, checkpoints, calls,
    \* pick_top_n: the caller's array, the arguments, the local distribution p, the
    \* index drawn, the position, and the array as it was passed in
    preds, vocab_size, top_n, p, c, ppc, preds_in,
    \* sample: the notebook it is taken from, the arguments, the locals, the position
    \* and the returned text
    notebook, prime_arg, prime, n_samples, samples, x, gen_i, prime_i, spc, result,
    \* the pick_top_n calls sample has made: the model call whose prediction was
    \* passed and the index that came back
    picks

batch_vars == <<chars, batch_size, num_steps, split_frac, pc,
                train_x, train_y, val_x, val_y, again>>
gb_vars == <<gb_arrs, gb_num_steps, gb_b, gb_pc, gb_yielded, gb_prev>>
loop_vars == <<epochs, save_every_n, n_batches, iterations, e, b, iteration,
               tpc, vb, val_loss, checkpoints>>
train_vars == <<loop_vars, new_state, calls>>
pick_vars == <<preds, vocab_size, top_n, p, c, ppc, preds_in>>
sample_vars == <<notebook, prime_arg, prime, n_samples, samples, x, gen_i, prime_i,
                 spc, result, picks>>
vars == <<batch_vars, gb_vars, train_vars, pick_vars, sample_vars>>

\* ------------------------------------------------------- python and numpy
Min(u, v) == IF u <= v THEN u ELSE v
Max(u, v) == IF u >= v THEN u ELSE v

\* A slice bound as python normalises it against a length n.
PyBound(i, n) == IF i < 0 THEN Max(i + n, 0) ELSE Min(i, n)

\* s[lo:hi]
PySlice(s, lo, hi) ==
    LET l == PyBound(lo, Len(s))
        h == PyBound(hi, Len(s))
    IN  IF l >= h THEN <<>> ELSE SubSeq(s, l + 1, h)

\* m[:, lo:hi]
ColSlice(m, lo, hi) == [i \in 1..Len(m) |-> PySlice(m[i], lo, hi)]

\* Mutant of np_split_raises: an empty array is refused too.
np_split_raises_empty(ary, sections) == Len(ary) = 0 \/ Len(ary) % sections # 0

\* np.split(ary, sections) raises ValueError unless the division is equal.
np_split_raises(ary, sections) == Len(ary) % sections # 0

\* Mutant of np_split: the pieces are taken with a stride (element j of piece i is
\* ary[j*sections + i]), as a column-major reshape would.
np_split_strided(ary, sections) ==
    LET w == Len(ary) \div sections
    IN  [i \in 1..sections |-> [j \in 1..w |-> ary[(j - 1) * sections + i]]]

\* np.split(ary, sections) when it does not raise: consecutive equal pieces.
np_split(ary, sections) ==
    LET w == Len(ary) \div sections
    IN  [i \in 1..sections |-> SubSeq(ary, (i - 1) * w + 1, i * w)]

\* np.stack of equal-length 1-D arrays: the 2-D array with them as rows.
np_stack(arrays) == arrays

\* m.shape of a 2-D array with at least one row.
Shape(m) == <<Len(m), Len(m[1])>>

\* ------------------------------------------------------------- split_data
\* Mutant of split_n_batches: num_steps is read from the last get_batch call when
\* there has been one, not from the argument.
split_n_batches_global(cs, bs, ns) ==
    Len(cs) \div (bs * (IF gb_num_steps = 0 THEN ns ELSE gb_num_steps))

\* n_batches = int(len(chars) / slice_size)
split_n_batches(cs, bs, ns) == Len(cs) \div (bs * ns)

\* Mutant of split_x: the inputs start one character late, chars[1: n*slice + 1].
split_x_shifted(cs, bs, ns) ==
    PySlice(cs, 1, split_n_batches(cs, bs, ns) * (bs * ns) + 1)

\* x = chars[: n_batches*slice_size]
split_x(cs, bs, ns) == PySlice(cs, 0, split_n_batches(cs, bs, ns) * (bs * ns))

\* Mutant of split_y: the targets start two characters after the inputs.
split_y_shift2(cs, bs, ns) ==
    PySlice(cs, 2, split_n_batches(cs, bs, ns) * (bs * ns) + 2)

\* y = chars[1: n_batches*slice_size + 1]
split_y(cs, bs, ns) == PySlice(cs, 1, split_n_batches(cs, bs, ns) * (bs * ns) + 1)

\* Mutant of split_idx: the product is rounded up instead of truncated.
split_idx_ceil(cs, bs, ns, frac) ==
    (split_n_batches(cs, bs, ns) * frac.num + frac.den - 1) \div frac.den

\* split_idx = int(n_batches*split_frac)
split_idx(cs, bs, ns, frac) == (split_n_batches(cs, bs, ns) * frac.num) \div frac.den

\* np.stack(np.split(flat, batch_size))
split_rows(flat, bs) == np_stack(np_split(flat, bs))

\* Whether the call raises (the np.split of x or of y).
split_data_raises(cs, bs, ns) ==
    \/ np_split_raises(split_x(cs, bs, ns), bs)
    \/ np_split_raises(split_y(cs, bs, ns), bs)

\* The four arrays of a call that returns.
split_data(cs, bs, ns, frac) ==
    LET xs == split_rows(split_x(cs, bs, ns), bs)
        ys == split_rows(split_y(cs, bs, ns), bs)
        cut == split_idx(cs, bs, ns, frac) * ns
    IN  [train_x |-> ColSlice(xs, 0, cut), train_y |-> ColSlice(ys, 0, cut),
         val_x |-> ColSlice(xs, cut, Len(xs[1])), val_y |-> ColSlice(ys, cut, Len(ys[1]))]

\* -------------------------------------------------------------- get_batch
\* Mutant of gb_n_batches: the loop body runs at least once.
gb_n_batches_min1(arrs, ns) == Max(1, Shape(arrs[1])[2] \div ns)

\* Mutant of gb_n_batches: the loop stops one window early.
gb_n_batches_short(arrs, ns) == Shape(arrs[1])[2] \div ns - 1

\* n_batches = int(slice_size/num_steps), slice_size from arrs[0].shape
gb_n_batches(arrs, ns) == Shape(arrs[1])[2] \div ns

\* Mutant of gb_range_start: a fresh generator goes on where the last one stopped.
gb_range_resume == gb_b

\* for b in range(n_batches): the first b
gb_range_start == 0

\* Mutant of gb_window: every window is the first one.
gb_window_first(arrs, ns, bi) ==
    [k \in 1..Len(arrs) |-> ColSlice(arrs[k], 0, ns)]

\* Mutant of gb_window: the window slides by one column, x[:, b: b+num_steps].
gb_window_sliding(arrs, ns, bi) ==
    [k \in 1..Len(arrs) |-> ColSlice(arrs[k], bi, bi + ns)]

\* [x[:, b*num_steps: (b+1)*num_steps] for x in arrs]
gb_window(arrs, ns, bi) ==
    [k \in 1..Len(arrs) |-> ColSlice(arrs[k], bi * ns, (bi + 1) * ns)]

\* ------------------------------------------------------------ batch spec
\* split_data and get_batch only move elements and never read their values, so
\* two symbols are enough to tell any two corpus positions apart.
Vocab == {0, 1}
Corpora == UNION {[1..n -> Vocab] : n \in 0..MaxLen}
Fracs == {[num |-> k, den |-> FracDen] : k \in 1..(FracDen - 1)}

\* No second call of split_data, no earlier generator.
NoCall == [pc |-> "none", gb_pc |-> "none", train_x |-> <<>>, train_y |-> <<>>, val_x |-> <<>>, val_y |-> <<>>]
NoGenerator == [pc |-> "none", arrs |-> <<>>, num_steps |-> 0, yielded |-> <<>>]

\* No generator, no training run.
GbIdle ==
    /\ gb_arrs = <<>> /\ gb_num_steps = 0 /\ gb_b = 0 /\ gb_pc = "none"
    /\ gb_yielded = <<>> /\ gb_prev = NoGenerator
TrainIdle ==
    /\ epochs = 0 /\ save_every_n = 0 /\ n_batches = 0 /\ iterations = 0
    /\ e = 0 /\ b = 0 /\ iteration = 0 /\ new_state = 0 /\ tpc = "idle" /\ vb = 0
    /\ val_loss = <<>> /\ checkpoints = <<>> /\ calls = <<>>
\* No array yet (a local not bound yet: preds, x), no call of pick_top_n or sample.
NoArray == [num |-> <<>>, den |-> 0]
Unbound == -1
PickIdle ==
    /\ preds = NoArray /\ vocab_size = 0 /\ top_n = 0 /\ p = NoArray /\ c = Unbound
    /\ ppc = "idle" /\ preds_in = NoArray
SampleIdle ==
    /\ notebook = "none" /\ prime_arg = <<>> /\ prime = <<>> /\ n_samples = 0
    /\ samples = <<>> /\ x = Unbound /\ gen_i = 0 /\ prime_i = 0 /\ spc = "idle"
    /\ result = <<>> /\ picks = <<>>

\* "abcabcabcabc" encoded with {a: 0, b: 1, c: 2}
ScenarioCorpus == <<0, 1, 2, 0, 1, 2, 0, 1, 2, 0, 1, 2>>
ScenarioCall ==
    /\ chars = ScenarioCorpus /\ batch_size = 2 /\ num_steps = 3
    /\ split_frac = [num |-> 1, den |-> 2]

InitBatch ==
    /\ \/ /\ chars \in Corpora
          /\ batch_size \in 1..MaxBatch
          /\ num_steps \in 1..MaxSteps
          /\ split_frac \in Fracs
       \/ ScenarioCall
    /\ pc = "start"
    /\ train_x = <<>> /\ train_y = <<>> /\ val_x = <<>> /\ val_y = <<>>
    /\ again = NoCall
    /\ GbIdle
    /\ TrainIdle
    /\ PickIdle
    /\ SampleIdle

\* train_x, train_y, val_x, val_y = split_data(chars, batch_size, num_steps, split_frac)
SplitData ==
    /\ pc = "start"
    /\ IF split_data_raises(chars, batch_size, num_steps)
       THEN /\ pc' = "ValueError"
            /\ UNCHANGED <<train_x, train_y, val_x, val_y>>
       ELSE LET r == split_data(chars, batch_size, num_steps, split_frac)
            IN  /\ pc' = "returned"
                /\ train_x' = r.train_x /\ train_y' = r.train_y
                /\ val_x' = r.val_x /\ val_y' = r.val_y
    /\ UNCHANGED <<chars, batch_size, num_steps, split_frac, again, gb_vars, train_vars,
                   pick_vars, sample_vars>>

\* get_batch([train_x, train_y], n) or get_batch([val_x, val_y], n): the generator
\* is created; its body has not run yet.
GetBatchCall ==
    /\ pc = "returned"
    /\ gb_pc = "none"
    /\ gb_arrs' \in {<<train_x, train_y>>, <<val_x, val_y>>}
    /\ gb_num_steps' \in 1..MaxSteps
    /\ gb_b' = gb_range_start
    /\ gb_pc' = "running"
    /\ gb_yielded' = <<>>
    /\ UNCHANGED <<batch_vars, train_vars, pick_vars, sample_vars, gb_prev>>

\* next() on the generator: the next window, or the end of the loop.
GetBatchNext ==
    /\ gb_pc = "running"
    /\ IF gb_b < gb_n_batches(gb_arrs, gb_num_steps)
       THEN /\ gb_yielded' = Append(gb_yielded, gb_window(gb_arrs, gb_num_steps, gb_b))
            /\ gb_b' = gb_b + 1
            /\ gb_pc' = gb_pc
       ELSE /\ gb_pc' = "exhausted"
            /\ UNCHANGED <<gb_b, gb_yielded>>
    /\ UNCHANGED <<batch_vars, train_vars, pick_vars, sample_vars, gb_arrs, gb_num_steps,
                   gb_prev>>

NextBatch == SplitData \/ GetBatchCall \/ GetBatchNext

SpecBatch == InitBatch /\ [][NextBatch]_vars

\* ------------------------------------------------------------ repeated calls
RepeatCorpora == UNION {[1..n -> Vocab] : n \in 0..MaxRepeatLen}

InitRepeat ==
    /\ chars \in RepeatCorpora
    /\ batch_size \in 1..MaxBatch
    /\ num_steps \in 1..MaxSteps
    /\ split_frac \in Fracs
    /\ pc = "start"
    /\ train_x = <<>> /\ train_y = <<>> /\ val_x = <<>> /\ val_y = <<>>
    /\ again = NoCall
    /\ GbIdle
    /\ TrainIdle
    /\ PickIdle
    /\ SampleIdle

\* split_data(chars, batch_size, num_steps, split_frac) once more, at any point
\* after the first call: what it returns or that it raises, and where the
\* generator stood when it was called.
SplitDataAgain ==
    /\ pc \in {"returned", "ValueError"}
    /\ again.pc = "none"
    /\ again' =
        IF split_data_raises(chars, batch_size, num_steps)
        THEN [NoCall EXCEPT !.pc = "ValueError", !.gb_pc = gb_pc]
        ELSE LET r == split_data(chars, batch_size, num_steps, split_frac)
             IN  [pc |-> "returned", gb_pc |-> gb_pc, train_x |-> r.train_x,
                  train_y |-> r.train_y, val_x |-> r.val_x, val_y |-> r.val_y]
    /\ UNCHANGED <<chars, batch_size, num_steps, split_frac, pc, train_x, train_y,
                   val_x, val_y, gb_vars, train_vars, pick_vars, sample_vars>>

\* A fresh get_batch call once the generator is exhausted, as the training loop
\* makes at the head of the next epoch or of the next validation pass.
GetBatchAgain ==
    /\ gb_pc = "exhausted"
    /\ gb_prev.pc = "none"
    /\ gb_prev' = [pc |-> gb_pc, arrs |-> gb_arrs, num_steps |-> gb_num_steps,
                   yielded |-> gb_yielded]
    /\ gb_arrs' \in {<<train_x, train_y>>, <<val_x, val_y>>}
    /\ gb_num_steps' \in 1..MaxSteps
    /\ gb_b' = gb_range_start
    /\ gb_pc' = "running"
    /\ gb_yielded' = <<>>
    /\ UNCHANGED <<batch_vars, train_vars, pick_vars, sample_vars>>

NextRepeat ==
    SplitData \/ GetBatchCall \/ GetBatchNext \/ SplitDataAgain \/ GetBatchAgain

SpecRepeat == InitRepeat /\ [][NextRepeat]_vars

\* ---------------------------------------------------------- training cell
\* The network is opaque.  A recurrent state is a token: 0 is the zero state that
\* sess.run(model.initial_state) returns, k > 0 the final_state of the k-th model
\* call.  A loss is named by the call that returned it.  keep_prob is in tenths.
ZeroState == 0
keep_prob == 5
KeepAll == 10

\* The inputs and targets placeholders have the shape [batch_size, num_steps]:
\* sess.run raises ValueError on a feed of another shape.
feed_ok(xw, yw) ==
    /\ Shape(xw) = <<batch_size, num_steps>>
    /\ Shape(yw) = <<batch_size, num_steps>>

\* Mutant of ModelCall: every feed takes the training keep probability.
ModelCall_dropout(kind, xw, yw, keep, state_in) ==
    [kind |-> kind, e |-> e, b |-> IF kind = "train" THEN b + 1 ELSE vb + 1,
     iteration |-> IF kind = "train" THEN e * n_batches + b + 1 ELSE iteration,
     x |-> xw, y |-> yw, keep_prob |-> keep_prob,
     state_in |-> state_in, state_out |-> Len(calls) + 1]

\* One sess.run of the network on a window: the record of the call.
ModelCall(kind, xw, yw, keep, state_in) ==
    [kind |-> kind, e |-> e, b |-> IF kind = "train" THEN b + 1 ELSE vb + 1,
     iteration |-> IF kind = "train" THEN e * n_batches + b + 1 ELSE iteration,
     x |-> xw, y |-> yw, keep_prob |-> keep,
     state_in |-> state_in, state_out |-> Len(calls) + 1]

\* (iteration%save_every_n == 0) or (iteration == iterations)
save_due(it) == (it % save_every_n = 0) \/ (it = iterations)

\* Mutant of val_reset_state: the validation pass starts on the state the training
\* step left.
val_keep_state(st) == st

\* new_state = sess.run(model.initial_state), before the validation windows
val_reset_state(st) == ZeroState

\* One corpus of each length, every character different: the loop never reads one.
TrainCorpora == {[k \in 1..n |-> k - 1] : n \in 0..MaxTrainLen}

InitTrain ==
    /\ chars \in TrainCorpora
    /\ batch_size \in 1..MaxBatch
    /\ num_steps \in 1..MaxSteps
    /\ split_frac \in Fracs
    /\ pc = "start"
    /\ train_x = <<>> /\ train_y = <<>> /\ val_x = <<>> /\ val_y = <<>>
    /\ again = NoCall
    /\ GbIdle
    /\ epochs \in 1..MaxEpochs
    /\ save_every_n \in 1..MaxSaveEvery
    /\ n_batches = 0 /\ iterations = 0
    /\ e = 0 /\ b = 0 /\ iteration = 0 /\ new_state = 0 /\ tpc = "idle" /\ vb = 0
    /\ val_loss = <<>> /\ checkpoints = <<>> /\ calls = <<>>
    /\ PickIdle
    /\ SampleIdle

\* n_batches = int(train_x.shape[1]/num_steps); iterations = n_batches * epochs
TrainBegin ==
    /\ pc = "returned" /\ tpc = "idle"
    /\ n_batches' = Shape(train_x)[2] \div num_steps
    /\ iterations' = (Shape(train_x)[2] \div num_steps) * epochs
    /\ e' = 0
    /\ tpc' = "epoch"
    /\ UNCHANGED <<batch_vars, gb_vars, pick_vars, sample_vars, epochs, save_every_n, b, iteration, new_state,
                   vb, val_loss, checkpoints, calls>>

\* for e in range(epochs): the head of the loop and the lines before the inner loop.
EpochBegin ==
    /\ tpc = "epoch"
    /\ IF e < epochs
       THEN /\ new_state' = ZeroState
            /\ b' = 0
            /\ tpc' = "train"
       ELSE /\ tpc' = "done"
            /\ UNCHANGED <<new_state, b>>
    /\ UNCHANGED <<batch_vars, gb_vars, pick_vars, sample_vars, epochs, save_every_n, n_batches, iterations, e,
                   iteration, vb, val_loss, checkpoints, calls>>

\* for b, (x, y) in enumerate(get_batch([train_x, train_y], num_steps), 1): one
\* training step, up to and including the test for a checkpoint and, when it is
\* due, the two lines before the validation windows.
TrainStep ==
    /\ tpc = "train"
    /\ b < gb_n_batches(<<train_x, train_y>>, num_steps)
    /\ LET w == gb_window(<<train_x, train_y>>, num_steps, b)
           call == ModelCall("train", w[1], w[2], keep_prob, new_state)
       IN  IF ~feed_ok(w[1], w[2])
           THEN /\ tpc' = "ValueError"
                /\ UNCHANGED <<b, iteration, new_state, vb, val_loss, calls>>
           ELSE /\ b' = b + 1
                /\ iteration' = call.iteration
                /\ calls' = Append(calls, call)
                /\ IF save_due(call.iteration)
                   THEN /\ val_loss' = <<>>
                        /\ new_state' = val_reset_state(call.state_out)
                        /\ vb' = 0
                        /\ tpc' = "val"
                   ELSE /\ new_state' = call.state_out
                        /\ tpc' = "train"
                        /\ UNCHANGED <<vb, val_loss>>
    /\ UNCHANGED <<batch_vars, gb_vars, pick_vars, sample_vars, epochs, save_every_n, n_batches, iterations, e,
                   checkpoints>>

\* The training generator is exhausted: the next epoch.
EpochEnd ==
    /\ tpc = "train"
    /\ b >= gb_n_batches(<<train_x, train_y>>, num_steps)
    /\ e' = e + 1
    /\ tpc' = "epoch"
    /\ UNCHANGED <<batch_vars, gb_vars, pick_vars, sample_vars, epochs, save_every_n, n_batches, iterations, b,
                   iteration, new_state, vb, val_loss, checkpoints, calls>>

\* for x, y in get_batch([val_x, val_y], num_steps): one validation step.
ValStep ==
    /\ tpc = "val"
    /\ vb < gb_n_batches(<<val_x, val_y>>, num_steps)
    /\ LET w == gb_window(<<val_x, val_y>>, num_steps, vb)
           call == ModelCall("val", w[1], w[2], KeepAll, new_state)
       IN  IF ~feed_ok(w[1], w[2])
           THEN /\ tpc' = "ValueError"
                /\ UNCHANGED <<new_state, vb, val_loss, calls>>
           ELSE /\ calls' = Append(calls, call)
                /\ new_state' = call.state_out
                /\ val_loss' = Append(val_loss, call.state_out)
                /\ vb' = vb + 1
                /\ tpc' = "val"
    /\ UNCHANGED <<batch_vars, gb_vars, pick_vars, sample_vars, epochs, save_every_n, n_batches, iterations, e, b,
                   iteration, checkpoints>>

\* The validation generator is exhausted: saver.save(sess, "checkpoints/i{}_l{}_v{}.ckpt")
\* with the iteration and the mean of val_loss, then the next training window.
SaveCheckpoint ==
    /\ tpc = "val"
    /\ vb >= gb_n_batches(<<val_x, val_y>>, num_steps)
    /\ checkpoints' = Append(checkpoints, [iteration |-> iteration, mean_of |-> val_loss,
                                           calls_before |-> Len(calls)])
    /\ tpc' = "train"
    /\ UNCHANGED <<batch_vars, gb_vars, pick_vars, sample_vars, epochs, save_every_n, n_batches, iterations, e, b,
                   iteration, new_state, vb, val_loss, calls>>

NextTrain ==
    SplitData \/ TrainBegin \/ EpochBegin \/ TrainStep \/ EpochEnd \/ ValStep
    \/ SaveCheckpoint

SpecTrain == InitTrain /\ [][NextTrain]_vars

\* The cell is a sequential script: it goes on as long as it has a next step.
SpecTrainFair == SpecTrain /\ WF_vars(NextTrain)

\* -------------------------------------------------------------- pick_top_n
\* A float array is [num, den]: entry k has the value num[k]/den.  A probability
\* vector is such an array with den = the sum of num.
RECURSIVE SeqSum(_)
SeqSum(q) == IF q = <<>> THEN 0 ELSE q[1] + SeqSum(Tail(q))

\* Mutant of pick_zero_count: the bound is counted from the front, [:n - top_n],
\* which wraps around when top_n is larger than n.
pick_zero_count_wrap(n, tn) == Len(PySlice([k \in 1..n |-> k], 0, n - tn))

\* Mutant of pick_zero_count: the sign of the slice bound is lost, [:top_n].
pick_zero_count_unsigned(n, tn) == Len(PySlice([k \in 1..n |-> k], 0, tn))

\* How many indices np.argsort(p)[:-top_n] holds, for p of length n.
pick_zero_count(n, tn) == Len(PySlice([k \in 1..n |-> k], 0, 0 - tn))

\* The index sets np.argsort(p)[:k] can be: k indices none of which holds a larger
\* value than an index left out.  The order argsort gives equal values is not
\* fixed (its default sort is not stable), so every such set can come out.
argsort_prefixes(nums, k) ==
    {Z \in SUBSET (1..Len(nums)) :
        /\ Cardinality(Z) = k
        /\ \A zi \in Z : \A oi \in (1..Len(nums)) \ Z : nums[zi] <= nums[oi]}

\* p[Z] = 0, in place
pick_zero(pr, Z) ==
    [num |-> [k \in 1..Len(pr.num) |-> IF k \in Z THEN 0 ELSE pr.num[k]], den |-> pr.den]

\* Mutant of pick_renorm: the division by the sum is left out.
pick_renorm_none(pr) == pr

\* p = p / np.sum(p): (num[k]/den) / (sum(num)/den) = num[k]/sum(num).  A sum of 0
\* gives nan entries, written den = 0.
pick_renorm(pr) == [num |-> pr.num, den |-> SeqSum(pr.num)]

\* np.random.choice(vocab_size, 1, p=p) raises ValueError when p has another length
\* than vocab_size or holds nan, or does not sum to 1.
choice_raises(vs, pr) == Len(pr.num) # vs \/ pr.den = 0 \/ SeqSum(pr.num) # pr.den

\* The indices np.random.choice(vocab_size, 1, p=p)[0] can return: those of
\* non-zero probability (0-based).
choice_draws(vs, pr) == {k - 1 : k \in {m \in 1..Len(pr.num) : pr.num[m] > 0}}

\* Mutant of pick_top_n: the zeroing is done on a copy and the caller's array is
\* left as it was.
pick_top_n_copy(pr, vs, tn) ==
    UNION {
        LET zeroed == pick_zero(pr, Z)
            dist == pick_renorm(zeroed)
        IN  IF choice_raises(vs, dist)
            THEN {[preds |-> pr, p |-> dist, c |-> Unbound, ppc |-> "ValueError"]}
            ELSE {[preds |-> pr, p |-> dist, c |-> d, ppc |-> "returned"] :
                    d \in choice_draws(vs, dist)}
        : Z \in argsort_prefixes(pr.num, pick_zero_count(Len(pr.num), tn))}

\* What one call pick_top_n(preds, vocab_size, top_n) can do: the caller's array
\* after it (np.squeeze gives a view, so the zeroing is in place), the distribution
\* drawn from, and the index returned or the error.
pick_top_n(pr, vs, tn) ==
    UNION {
        LET zeroed == pick_zero(pr, Z)
            dist == pick_renorm(zeroed)
        IN  IF choice_raises(vs, dist)
            THEN {[preds |-> zeroed, p |-> dist, c |-> Unbound, ppc |-> "ValueError"]}
            ELSE {[preds |-> zeroed, p |-> dist, c |-> d, ppc |-> "returned"] :
                    d \in choice_draws(vs, dist)}
        : Z \in argsort_prefixes(pr.num, pick_zero_count(Len(pr.num), tn))}

\* --------------------------------------------------------------- pick spec
\* The probability vectors of length n with weights up to MaxWeight, and the
\* vector [0.1, 0.05, 0.6, 0.05, 0.2] in twentieths.
ProbVectors(n) ==
    {[num |-> w, den |-> SeqSum(w)] : w \in {v \in [1..n -> 0..MaxWeight] : SeqSum(v) > 0}}
ScenarioPreds == [num |-> <<2, 1, 12, 1, 4>>, den |-> 20]
PickInputs == UNION {ProbVectors(n) : n \in 1..MaxVocab} \cup {ScenarioPreds}

InitPick ==
    /\ chars = <<>> /\ batch_size = 0 /\ num_steps = 0 /\ split_frac = [num |-> 0, den |-> 1]
    /\ pc = "idle"
    /\ train_x = <<>> /\ train_y = <<>> /\ val_x = <<>> /\ val_y = <<>>
    /\ again = NoCall
    /\ GbIdle
    /\ TrainIdle
    /\ SampleIdle
    /\ preds \in PickInputs
    /\ vocab_size = Len(preds.num)
    /\ top_n \in (0 - MaxTopN)..MaxTopN
    /\ p = NoArray /\ c = Unbound /\ ppc = "idle"
    /\ preds_in = preds

\* c = pick_top_n(preds, vocab_size, top_n)
PickTopN ==
    /\ ppc = "idle"
    /\ \E r \in pick_top_n(preds, vocab_size, top_n) :
        /\ preds' = r.preds
        /\ p' = r.p
        /\ c' = r.c
        /\ ppc' = r.ppc
    /\ UNCHANGED <<batch_vars, gb_vars, train_vars, sample_vars, vocab_size, top_n,
                   preds_in>>

NextPick == PickTopN

SpecPick == InitPick /\ [][NextPick]_vars

\* ------------------------------------------------------------------ sample
\* int_to_vocab as a sequence (code k is entry k+1); vocab_to_int is its inverse.
\* The corpus holds "F", "a" and "r"; "?" stands for a character it does not hold.
int_to_vocab == <<"F", "a", "r">>
InVocab(ch) == \E k \in 1..Len(int_to_vocab) : int_to_vocab[k] = ch
vocab_to_int(ch) == (CHOOSE k \in 1..Len(int_to_vocab) : int_to_vocab[k] = ch) - 1
PrimeChars == {"F", "a", "?"}
Primes == UNION {[1..n -> PrimeChars] : n \in 0..MaxPrime}

\* top_n=5, the default sample leaves to pick_top_n
DefaultTopN == 5

\* Mutant of ScopedPrime: the first line is missing and prime stays the argument.
ScopedPrime_argument == prime_arg

\* prime = "Far", the first line of sample in the name-scoped notebook
ScopedPrime == <<"F", "a", "r">>

\* Mutant of local_bound: the name always has a value.
local_bound_always(v) == TRUE

\* Whether a local array name has been assigned: reading one that has not raises
\* UnboundLocalError.
local_bound(v) == v # NoArray

\* Mutant of gen_steps: one step more, range(n_samples + 1).
gen_steps_inclusive(n) == n + 1

\* for i in range(n_samples): the number of generation steps
gen_steps(n) == n

\* Mutant of SampleCall: every feed starts from the zero state.
SampleCall_restart(phase, code, state_in) ==
    [kind |-> "sample", phase |-> phase, x |-> code, keep_prob |-> KeepAll,
     state_in |-> ZeroState, state_out |-> Len(calls) + 1]

\* One sess.run([model.preds, model.final_state]) on the 1x1 input: the record of
\* the call.
SampleCall(phase, code, state_in) ==
    [kind |-> "sample", phase |-> phase, x |-> code, keep_prob |-> KeepAll,
     state_in |-> state_in, state_out |-> Len(calls) + 1]

InitSample ==
    /\ chars = <<>> /\ batch_size = 0 /\ num_steps = 0 /\ split_frac = [num |-> 0, den |-> 1]
    /\ pc = "idle"
    /\ train_x = <<>> /\ train_y = <<>> /\ val_x = <<>> /\ val_y = <<>>
    /\ again = NoCall
    /\ GbIdle
    /\ TrainIdle
    /\ preds = NoArray /\ vocab_size = Len(int_to_vocab) /\ top_n = DefaultTopN
    /\ p = NoArray /\ c = Unbound /\ ppc = "idle" /\ preds_in = NoArray
    /\ notebook \in {"intro", "scoped"}
    /\ prime_arg \in Primes
    /\ n_samples \in 0..MaxSamples
    /\ prime = <<>> /\ samples = <<>> /\ x = Unbound /\ gen_i = 0 /\ prime_i = 0
    /\ spc = "idle" /\ result = <<>> /\ picks = <<>>

\* The call, up to new_state = sess.run(model.initial_state).
SampleBegin ==
    /\ spc = "idle" /\ notebook # "none"
    /\ prime' = IF notebook = "scoped" THEN ScopedPrime ELSE prime_arg
    /\ samples' = IF notebook = "scoped" THEN ScopedPrime ELSE prime_arg
    /\ new_state' = ZeroState
    /\ prime_i' = 0
    /\ spc' = "prime"
    /\ UNCHANGED <<batch_vars, gb_vars, loop_vars, calls, pick_vars, notebook, prime_arg,
                   n_samples, x, gen_i, result, picks>>

\* for c in prime: one character through the network.
PrimeStep ==
    /\ spc = "prime" /\ prime_i < Len(prime)
    /\ c' = prime[prime_i + 1]
    /\ IF ~InVocab(prime[prime_i + 1])
       THEN /\ x' = 0
            /\ spc' = "KeyError"
            /\ UNCHANGED <<preds, new_state, calls, prime_i>>
       ELSE LET call == SampleCall("prime", vocab_to_int(prime[prime_i + 1]), new_state)
            IN  /\ x' = call.x
                /\ preds' \in ProbVectors(vocab_size)
                /\ new_state' = call.state_out
                /\ calls' = Append(calls, call)
                /\ prime_i' = prime_i + 1
                /\ spc' = "prime"
    /\ UNCHANGED <<batch_vars, gb_vars, loop_vars, vocab_size, top_n, p, ppc, preds_in,
                   notebook, prime_arg, prime, n_samples, samples, gen_i, result, picks>>

\* c = pick_top_n(preds, len(vocab)); samples.append(int_to_vocab[c]) after the
\* priming loop.  preds is a local that only the loop body binds.
FirstPick ==
    /\ spc = "prime" /\ prime_i = Len(prime)
    /\ IF ~local_bound(preds)
       THEN /\ spc' = "UnboundLocalError"
            /\ UNCHANGED <<preds, p, c, samples, gen_i, picks>>
       ELSE \E r \in pick_top_n(preds, Len(int_to_vocab), top_n) :
            /\ preds' = r.preds
            /\ p' = r.p
            /\ c' = r.c
            /\ picks' = Append(picks, [from |-> Len(calls), c |-> r.c])
            /\ gen_i' = 0
            /\ IF r.ppc = "returned"
               THEN /\ samples' = Append(samples, int_to_vocab[r.c + 1])
                    /\ spc' = "generate"
               ELSE /\ spc' = r.ppc
                    /\ UNCHANGED samples
    /\ UNCHANGED <<batch_vars, gb_vars, train_vars, vocab_size, top_n, ppc, preds_in,
                   notebook, prime_arg, prime, n_samples, x, prime_i, result>>

\* for i in range(n_samples): the last character through the network, the next
\* one picked and appended.
GenStep ==
    /\ spc = "generate" /\ gen_i < gen_steps(n_samples)
    /\ LET call == SampleCall("gen", c, new_state)
       IN  /\ x' = call.x
           /\ new_state' = call.state_out
           /\ calls' = Append(calls, call)
           /\ \E out \in ProbVectors(vocab_size) :
              \E r \in pick_top_n(out, Len(int_to_vocab), top_n) :
                /\ preds' = r.preds
                /\ p' = r.p
                /\ c' = r.c
                /\ picks' = Append(picks, [from |-> call.state_out, c |-> r.c])
                /\ IF r.ppc = "returned"
                   THEN /\ samples' = Append(samples, int_to_vocab[r.c + 1])
                        /\ gen_i' = gen_i + 1
                        /\ spc' = "generate"
                   ELSE /\ spc' = r.ppc
                        /\ UNCHANGED <<samples, gen_i>>
    /\ UNCHANGED <<batch_vars, gb_vars, loop_vars, vocab_size, top_n, ppc, preds_in,
                   notebook, prime_arg, prime, n_samples, prime_i, result>>

\* return ''.join(samples)
SampleReturn ==
    /\ spc = "generate" /\ gen_i >= gen_steps(n_samples)
    /\ result' = samples
    /\ spc' = "returned"
    /\ UNCHANGED <<batch_vars, gb_vars, train_vars, pick_vars, notebook, prime_arg, prime,
                   n_samples, samples, x, gen_i, prime_i, picks>>

NextSample == SampleBegin \/ PrimeStep \/ FirstPick \/ GenStep \/ SampleReturn

SpecSample == InitSample /\ [][NextSample]_vars

\* ------------------------------------------------------------ either cell
\* A run of the training cell or a call of sample: every feed of the network.
InitRun == InitTrain \/ InitSample
NextRun == NextTrain \/ NextSample
SpecRun == InitRun /\ [][NextRun]_vars

\* ------------------------------------------------- split_data: properties
\* n_windows, the row length n_windows*num_steps and the split column of the call.
NWindows == Len(chars) \div (batch_size * num_steps)
RowLen == NWindows * num_steps
Cut == ((NWindows * split_frac.num) \div split_frac.den) * num_steps
Rows == 1..batch_size

\* X = train_x ++ val_x and Y = train_y ++ val_y, row by row.
XRow(i) == train_x[i] \o val_x[i]
YRow(i) == train_y[i] \o val_y[i]

\* The call on the corpus <<0, 1, ..., len-1>> of positions: where each element of
\* the result comes from.
PositionsOf(cs) == [k \in 1..Len(cs) |-> k - 1]
Traced == split_data(PositionsOf(chars), batch_size, num_steps, split_frac)
TracedX(i) == Traced.train_x[i] \o Traced.val_x[i]
\* (The properties below bind such values with \A v \in {value}, which TLC
\* evaluates once.)

\* C1: when split_data returns, the targets are the inputs shifted by one: every
\* column j of a row but the last has Y[i][j] = X[i][j+1].
C1_ShiftInvariant ==
    pc = "returned" =>
        \A i \in Rows :
            /\ Len(YRow(i)) >= Len(XRow(i)) - 1
            /\ \A j \in 1..(Len(XRow(i)) - 1) : YRow(i)[j] = XRow(i)[j + 1]

C1_Witness ==
    /\ pc = "returned" /\ batch_size = 2
    /\ Len(train_x[2]) >= 1 /\ Len(val_x[2]) >= 2
    /\ XRow(2)[1] # XRow(2)[2]

\* C2: with len(chars) >= batch_size*num_steps, also when the length is an exact
\* multiple of batch_size*num_steps, split_data returns and X and Y both have the
\* shape [batch_size, n_windows*num_steps].
C2_ReturnsEqualShapes ==
    (pc # "start" /\ Len(chars) >= batch_size * num_steps) =>
        /\ pc = "returned"
        /\ \A i \in Rows : Len(XRow(i)) = RowLen /\ Len(YRow(i)) = RowLen
        /\ Len(train_x) = batch_size /\ Len(train_y) = batch_size
        /\ Len(val_x) = batch_size /\ Len(val_y) = batch_size

\* C7: every row has len(train_x[i]) + len(val_x[i]) = n_windows*num_steps
\* <= len(chars) div batch_size, and no corpus position at or beyond
\* n_windows*batch_size*num_steps is in train_x or val_x.
C7_CoverageTruncation ==
    pc = "returned" =>
        \A from \in {[i \in Rows |-> TracedX(i)]} : \A xr \in {[i \in Rows |-> XRow(i)]} :
            \A i \in Rows :
                /\ Len(train_x[i]) + Len(val_x[i]) = RowLen
                /\ RowLen <= Len(chars) \div batch_size
                /\ Len(from[i]) = Len(xr[i])
                /\ \A j \in 1..Len(xr[i]) :
                    /\ from[i][j] < NWindows * batch_size * num_steps
                    /\ xr[i][j] = chars[from[i][j] + 1]

C7_Witness ==
    /\ pc = "returned" /\ NWindows >= 1 /\ batch_size = 2
    /\ Len(chars) >= NWindows * batch_size * num_steps + 2

\* C8: row i of X is the corpus span [i*n_windows*num_steps, (i+1)*n_windows*num_steps)
\* in corpus order (rows counted from 0 in the claim, from 1 here).
C8_RowLocality ==
    pc = "returned" =>
        \A from \in {[i \in Rows |-> TracedX(i)]} : \A xr \in {[i \in Rows |-> XRow(i)]} :
            \A i \in Rows :
                /\ Len(xr[i]) = RowLen
                /\ from[i] = [j \in 1..RowLen |-> (i - 1) * RowLen + j - 1]
                /\ \A j \in 1..RowLen : xr[i][j] = chars[(i - 1) * RowLen + j]

C8_Witness ==
    /\ pc = "returned" /\ batch_size = 2 /\ RowLen >= 3
    /\ XRow(1) # XRow(2)

\* C9: the columns are split at floor(n_windows*split_frac)*num_steps: train_x and
\* train_y are the columns left of it, val_x and val_y the columns from it on.
C9_SplitColumns ==
    pc = "returned" =>
        \A i \in Rows :
            /\ Cut <= RowLen
            /\ Len(train_x[i]) = Cut /\ Len(train_y[i]) = Cut
            /\ Len(val_x[i]) = RowLen - Cut
            /\ \A j \in 1..Cut :
                /\ train_x[i][j] = chars[(i - 1) * RowLen + j]
                /\ train_y[i][j] = chars[(i - 1) * RowLen + j + 1]
            /\ \A j \in 1..Len(val_x[i]) :
                val_x[i][j] = chars[(i - 1) * RowLen + Cut + j]
            /\ \A j \in 1..Len(val_y[i]) :
                val_y[i][j] = chars[(i - 1) * RowLen + Cut + j + 1]

C9_Witness ==
    /\ pc = "returned" /\ num_steps = 2
    /\ Len(train_x[1]) >= 2 /\ Len(val_x[1]) >= 4
    /\ train_x[1] # PySlice(val_x[1], 0, 2)

\* C15: on a corpus shorter than batch_size*num_steps split_data does not raise
\* and returns four arrays of batch_size rows and no column.
C15_ShortCorpusEmpty ==
    (pc # "start" /\ Len(chars) < batch_size * num_steps) =>
        /\ pc = "returned"
        /\ \A arr \in {train_x, train_y, val_x, val_y} :
            /\ Len(arr) = batch_size
            /\ \A i \in Rows : arr[i] = <<>>

C15_Witness ==
    /\ pc = "returned" /\ batch_size = 2 /\ num_steps = 2 /\ Len(chars) = 3
    /\ train_x = <<<<>>, <<>>>> /\ val_y = <<<<>>, <<>>>>

\* C18: for "abcabcabcabc" as <<0,1,2,...>>, batch_size = 2, num_steps = 3 and
\* split_frac = 0.5, split_data has n_windows = 2 and split_idx = 1 and returns the
\* input rows [0,1,2,0,1,2] and [0,1,2,0,1,2], the first 3 columns of each as the
\* training portion and the other 3 as the validation portion.
C18_Scenario ==
    (ScenarioCall /\ pc # "start") =>
        /\ pc = "returned"
        /\ split_n_batches(chars, batch_size, num_steps) = 2
        /\ split_idx(chars, batch_size, num_steps, split_frac) = 1
        /\ XRow(1) = <<0, 1, 2, 0, 1, 2>> /\ XRow(2) = <<0, 1, 2, 0, 1, 2>>
        /\ train_x = <<<<0, 1, 2>>, <<0, 1, 2>>>>
        /\ val_x = <<<<0, 1, 2>>, <<0, 1, 2>>>>

\* --------------------------------------------------- get_batch: properties
\* The column count C of the arrays and the step S of the running generator.
GbCols == Len(gb_arrs[1][1])
GbSameShape == \A k \in 1..Len(gb_arrs) : \A i \in Rows : Len(gb_arrs[k][i]) = GbCols

\* C10: over arrays with C columns and step S, get_batch yields floor(C/S) windows
\* of shape [batch_size, S], window w holding columns [w*S, (w+1)*S) of each array,
\* so that together they are the first floor(C/S)*S columns.
C10_WindowPartition ==
    (gb_pc \in {"running", "exhausted"} /\ GbSameShape) =>
        /\ Len(gb_yielded) <= GbCols \div gb_num_steps
        /\ gb_pc = "exhausted" => Len(gb_yielded) = GbCols \div gb_num_steps
        /\ \A w \in 1..Len(gb_yielded) : \A k \in 1..Len(gb_arrs) :
            /\ Len(gb_yielded[w]) = Len(gb_arrs)
            /\ Len(gb_yielded[w][k]) = batch_size
            /\ \A i \in Rows :
                /\ Len(gb_yielded[w][k][i]) = gb_num_steps
                /\ \A j \in 1..gb_num_steps :
                    gb_yielded[w][k][i][j] = gb_arrs[k][i][(w - 1) * gb_num_steps + j]

C10_Witness ==
    /\ gb_pc = "exhausted" /\ GbSameShape /\ gb_num_steps = 2
    /\ Len(gb_yielded) >= 2
    /\ GbCols % gb_num_steps # 0
    /\ gb_yielded[1] # gb_yielded[2]

Returned == [train_x |-> train_x, train_y |-> train_y, val_x |-> val_x, val_y |-> val_y]

TrainCalls == {k \in 1..Len(calls) : calls[k].kind = "train"}
ValCalls == {k \in 1..Len(calls) : calls[k].kind = "val"}

\* C3: within an epoch the state fed to training window k+1 is the state the
\* training step on window k returned, also across a validation pass, and no
\* training step is fed a state that a validation step returned.
C3_TrainStateCarried ==
    /\ \A i \in TrainCalls : \A j \in TrainCalls :
        (calls[i].e = calls[j].e /\ calls[j].b = calls[i].b + 1)
            => calls[j].state_in = calls[i].state_out
    /\ \A j \in TrainCalls : \A v \in ValCalls :
        calls[j].state_in # calls[v].state_out

\* C11: the first training window of every epoch and the first validation window
\* of every validation pass are fed the zero initial state.
C11_ZeroStateAtStart ==
    /\ \A k \in TrainCalls : calls[k].b = 1 => calls[k].state_in = ZeroState
    /\ \A k \in ValCalls : calls[k].b = 1 => calls[k].state_in = ZeroState

\* An epoch after the first has started on the zero state, and a validation pass
\* has started right after a training step that returned another state.
C11_Witness ==
    /\ \E k \in TrainCalls :
        /\ calls[k].e = 1 /\ calls[k].b = 1 /\ calls[k].state_in = ZeroState
        /\ k > 1 /\ calls[k - 1].state_out # ZeroState
    /\ \E k \in ValCalls :
        /\ calls[k].b = 1 /\ calls[k].state_in = ZeroState
        /\ k > 1 /\ calls[k - 1].kind = "train" /\ calls[k - 1].b >= 2
        /\ calls[k - 1].state_out # ZeroState

\* The training calls made so far, in the order they were made.
TrainOrder == SelectSeq(calls, LAMBDA call : call.kind = "train")

\* C12: within every epoch the training windows go to the model in column order:
\* the first call of an epoch is on window 1, each next call on the next window, an
\* epoch ends only after the last window, and call b is on the columns
\* [(b-1)*num_steps, b*num_steps) of train_x and train_y.
C12_WindowsInOrder ==
    \A order \in {TrainOrder} :
        /\ \A k \in 1..Len(order) :
            /\ order[k].x = ColSlice(train_x, (order[k].b - 1) * num_steps,
                                     order[k].b * num_steps)
            /\ order[k].y = ColSlice(train_y, (order[k].b - 1) * num_steps,
                                     order[k].b * num_steps)
            /\ order[k].b \in 1..(Len(train_x[1]) \div num_steps)
            /\ k = 1 => (order[k].e = 0 /\ order[k].b = 1)
            /\ k > 1 =>
                \/ order[k].e = order[k - 1].e /\ order[k].b = order[k - 1].b + 1
                \/ /\ order[k].e = order[k - 1].e + 1 /\ order[k].b = 1
                   /\ order[k - 1].b = Len(train_x[1]) \div num_steps
        /\ tpc = "done" => Len(order) = epochs * (Len(train_x[1]) \div num_steps)

\* Two epochs of three windows each have been trained on, the windows all different.
C12_Witness ==
    /\ tpc = "done" /\ epochs = 2 /\ Len(TrainOrder) = 6
    /\ TrainOrder[1].x # TrainOrder[2].x /\ TrainOrder[2].x # TrainOrder[3].x
    /\ TrainOrder[4].x = TrainOrder[1].x

\* The final iteration, the test for a checkpoint as the claim words it, and
\* whether the run has ended.
FinalIteration == epochs * n_batches
CheckpointDue(t) == t % save_every_n = 0 \/ t = FinalIteration
RunOver == tpc \in {"done", "ValueError"}
SavedAt(t) == \E k \in 1..Len(checkpoints) : checkpoints[k].iteration = t

\* C13: a checkpoint is written at iteration t exactly when t is a multiple of
\* save_every_n or the final iteration epochs*n_batches: every checkpoint is of
\* such an iteration that a training step has run, every such iteration the run
\* has gone past has its checkpoint, one each, and a run of at least one training
\* step that has ended has written the checkpoint of the final iteration.
C13_CheckpointSchedule ==
    /\ \A k \in 1..Len(checkpoints) :
        /\ CheckpointDue(checkpoints[k].iteration)
        /\ \E j \in TrainCalls : calls[j].iteration = checkpoints[k].iteration
        /\ \A o \in 1..Len(checkpoints) :
            checkpoints[o].iteration = checkpoints[k].iteration => o = k
    /\ \A j \in TrainCalls :
        (CheckpointDue(calls[j].iteration) /\ (tpc # "val" \/ calls[j].iteration # iteration))
            => SavedAt(calls[j].iteration)
    /\ (RunOver /\ TrainCalls # {}) => SavedAt(FinalIteration)

\* The number of validation windows.
ValWindows == Len(val_x[1]) \div num_steps

\* C23: when a checkpoint is written, the last model calls made are one validation
\* pass: one call per validation window, in column order, right after the
\* training step of the checkpoint's iteration; and the losses whose mean goes
\* into the checkpoint are those of exactly these calls.
C23_ValidationBeforeSave ==
    \A k \in 1..Len(checkpoints) :
        \A last \in {checkpoints[k].calls_before} : \A first \in {last - ValWindows + 1} :
            /\ ValWindows >= 1
            /\ first >= 2
            /\ calls[first - 1].kind = "train"
            /\ calls[first - 1].iteration = checkpoints[k].iteration
            /\ \A w \in 1..ValWindows :
                /\ calls[first + w - 1].kind = "val"
                /\ calls[first + w - 1].b = w
                /\ calls[first + w - 1].x =
                    ColSlice(val_x, (w - 1) * num_steps, w * num_steps)
                /\ calls[first + w - 1].y =
                    ColSlice(val_y, (w - 1) * num_steps, w * num_steps)
            /\ checkpoints[k].mean_of = [w \in 1..ValWindows |-> calls[first + w - 1].state_out]

\* Two checkpoints, each after a pass over three different validation windows.
C23_Witness ==
    /\ Len(checkpoints) = 2 /\ ValWindows = 3
    /\ Len(checkpoints[2].mean_of) = 3
    /\ checkpoints[2].calls_before = Len(calls)
    /\ calls[Len(calls)].x # calls[Len(calls) - 1].x
    /\ calls[Len(calls) - 1].x # calls[Len(calls) - 2].x

\* The training calls of epoch ep and the validation calls of the pass that
\* checkpoint k closes, as sets of indices into calls.
EpochCalls(ep) == {k \in TrainCalls : calls[k].e = ep}
PassCalls(k) ==
    {j \in ValCalls : /\ j <= checkpoints[k].calls_before
                      /\ j > checkpoints[k].calls_before - Len(checkpoints[k].mean_of)}

\* Column j of array arr (train_x, ... ) is in exactly one of the calls in idx, at
\* its place in window ((j-1) div num_steps) + 1; field is "x" or "y".
FedOnce(arr, field, idx, j) ==
    /\ Cardinality({k \in idx : calls[k].b = ((j - 1) \div num_steps) + 1}) = 1
    /\ \A k \in idx : calls[k].b = ((j - 1) \div num_steps) + 1 =>
        \A i \in Rows :
            /\ Len(calls[k][field][i]) = num_steps
            /\ calls[k][field][i][((j - 1) % num_steps) + 1] = arr[i][j]

\* C28: with the num_steps of split_data, the column counts of train_x, train_y,
\* val_x and val_y are multiples of num_steps, no feed is refused, every column of
\* the training arrays is fed exactly once in every epoch that has ended, and
\* every column of the validation arrays exactly once in every validation pass.
C28_NoColumnDropped ==
    /\ pc = "returned" =>
        \A arr \in {train_x, train_y, val_x, val_y} : Len(arr[1]) % num_steps = 0
    /\ tpc # "ValueError"
    /\ \A ep \in 0..(epochs - 1) : (ep < e \/ tpc = "done") =>
        /\ \A j \in 1..Len(train_x[1]) : FedOnce(train_x, "x", EpochCalls(ep), j)
        /\ \A j \in 1..Len(train_y[1]) : FedOnce(train_y, "y", EpochCalls(ep), j)
    /\ \A k \in 1..Len(checkpoints) :
        /\ \A j \in 1..Len(val_x[1]) : FedOnce(val_x, "x", PassCalls(k), j)
        /\ \A j \in 1..Len(val_y[1]) : FedOnce(val_y, "y", PassCalls(k), j)

\* C29: the run ends after exactly epochs * n_batches training steps, n_batches
\* the number of training windows: the k-th training step of the run has
\* iteration k, there are never more than epochs * n_batches of them, a run that
\* has ended has made them all, and no two checkpoints have the same iteration.
C29_ExactlyAllSteps ==
    \A order \in {TrainOrder} :
        /\ \A k \in 1..Len(order) : order[k].iteration = k
        /\ tpc # "idle" =>
            /\ n_batches = Len(train_x[1]) \div num_steps
            /\ Len(order) <= epochs * n_batches
        /\ RunOver => Len(order) = epochs * n_batches
        /\ \A k \in 1..Len(checkpoints) : \A o \in 1..Len(checkpoints) :
            checkpoints[o].iteration = checkpoints[k].iteration => o = k

\* The training region is empty: floor(n_windows*split_frac) = 0 on a corpus of
\* at least one full window.
EmptyTraining ==
    pc = "returned" /\ NWindows >= 1 /\ (NWindows * split_frac.num) \div split_frac.den = 0

\* C30: on a corpus of at least one full window the validation region has at
\* least one full window (as get_batch counts them, from val_x); when
\* floor(n_windows*split_frac) = 0 the training region has no column, the run
\* makes no training step and no validation step, writes no checkpoint, and ends.
C30_EmptyTrainingRegion ==
    /\ []((pc = "returned" /\ NWindows >= 1) =>
            /\ Len(val_x[1]) >= num_steps
            /\ gb_n_batches(<<val_x, val_y>>, num_steps) >= 1)
    /\ [](EmptyTraining =>
            /\ \A i \in Rows : train_x[i] = <<>> /\ train_y[i] = <<>>
            /\ calls = <<>> /\ checkpoints = <<>>
            /\ tpc \in {"idle", "epoch", "train", "done"})
    /\ (EmptyTraining ~> tpc = "done")

\* A run of two epochs over an empty training region has ended.
C30_Witness ==
    /\ EmptyTraining /\ tpc = "done" /\ epochs = 2 /\ e = 2 /\ batch_size = 2
    /\ Len(val_x[1]) >= 2 /\ calls = <<>> /\ checkpoints = <<>>

\* ---------------------------------------------------- pick_top_n: properties
NonZero(q) == {k \in 1..Len(q) : q[k] > 0}
Min3(u, v, w) == Min(u, Min(v, w))

\* The n-th largest value of q (1 <= n <= Len(q)): at least n entries are >= it and
\* fewer than n are larger.
NthLargest(q, n) ==
    CHOOSE v \in {q[k] : k \in 1..Len(q)} :
        /\ Cardinality({k \in 1..Len(q) : q[k] >= v}) >= n
        /\ Cardinality({k \in 1..Len(q) : q[k] > v}) < n

\* The sum of the n largest values of q.
RECURSIVE TopSum(_, _)
TopSum(q, n) ==
    IF n = 0 \/ q = <<>> THEN 0
    ELSE LET m == CHOOSE k \in 1..Len(q) : \A o \in 1..Len(q) : q[o] <= q[k]
         IN  q[m] + TopSum([k \in 1..(Len(q) - 1) |-> IF k < m THEN q[k] ELSE q[k + 1]],
                           n - 1)

\* top_n clamped into 1..vocab_size, and the top_n outside that range.
Clamp(tn, vs) == Max(1, Min(tn, vs))
InvalidTopN(vs) == {tn \in (0 - MaxTopN)..MaxTopN : tn <= 0 \/ tn > vs}

\* C16: a call with top_n <= 0 or top_n > vocab_size either ends in an error or
\* does what the call with top_n clamped into 1..vocab_size can do, and whether it
\* ends in an error is the same for every such top_n.
C16_InvalidTopNConsistent ==
    (ppc # "idle" /\ top_n \in InvalidTopN(vocab_size)) =>
        /\ ppc = "returned" =>
            [preds |-> preds, p |-> p, c |-> c, ppc |-> ppc]
                \in pick_top_n(preds_in, vocab_size, Clamp(top_n, vocab_size))
        /\ \A tn \in InvalidTopN(vocab_size) :
            \A r \in pick_top_n(preds_in, vocab_size, tn) :
                (r.ppc = "returned") <=> (ppc = "returned")

\* C5 as stated: for top_n >= 1 the distribution drawn from has exactly
\* min(top_n, vocab_size) non-zero entries, sums to 1, and the index returned is
\* one of the non-zero entries.
C5_ExactlyTopNNonZero ==
    (ppc # "idle" /\ top_n >= 1) =>
        /\ ppc = "returned"
        /\ Cardinality(NonZero(p.num)) = Min(top_n, vocab_size)
        /\ SeqSum(p.num) = p.den
        /\ c + 1 \in NonZero(p.num)

\* C5 amended: the number of non-zero entries is min(top_n, vocab_size, number of
\* non-zero entries of the input); the rest as stated.
C5_TopNRenormalised ==
    (ppc # "idle" /\ top_n >= 1) =>
        /\ ppc = "returned"
        /\ Cardinality(NonZero(p.num)) =
            Min3(top_n, vocab_size, Cardinality(NonZero(preds_in.num)))
        /\ p.den > 0 /\ SeqSum(p.num) = p.den
        /\ c + 1 \in NonZero(p.num)

C5_Witness ==
    /\ ppc = "returned" /\ top_n = 2 /\ vocab_size = 4
    /\ Cardinality(NonZero(preds_in.num)) = 4
    /\ Cardinality(NonZero(p.num)) = 2
    /\ p.den # preds_in.den

\* C6: the index returned never has a probability below the top_n-th largest of
\* the input; the entries outside the top_n largest are zero in the distribution
\* drawn from and the others are the input's in proportion; for
\* [0.1,0.05,0.6,0.05,0.2] and top_n = 2 that distribution is [0,0,0.75,0,0.25] and
\* the index is 2 or 4.
C6_OnlyTopNDrawn ==
    (ppc # "idle" /\ top_n >= 1 /\ top_n <= vocab_size) =>
        /\ ppc = "returned"
        /\ preds_in.num[c + 1] >= NthLargest(preds_in.num, top_n)
        /\ Cardinality({k \in 1..vocab_size : p.num[k] = 0}) >= vocab_size - top_n
        /\ \A k \in 1..vocab_size :
            /\ preds_in.num[k] < NthLargest(preds_in.num, top_n) => p.num[k] = 0
            /\ p.num[k] # 0 =>
                p.num[k] * TopSum(preds_in.num, top_n) = preds_in.num[k] * p.den
        /\ (preds_in = ScenarioPreds /\ top_n = 2) =>
            /\ \A k \in {1, 2, 4} : p.num[k] = 0
            /\ p.num[3] * 4 = 3 * p.den
            /\ p.num[5] * 4 = 1 * p.den
            /\ c \in {2, 4}

C6_Witness ==
    /\ ppc = "returned" /\ preds_in = ScenarioPreds /\ top_n = 2 /\ c = 4

\* C17: with top_n >= vocab_size no entry is zeroed, the distribution drawn from
\* is the input, and every index of positive input probability can be returned
\* (and no other).
C17_FullDistribution ==
    (ppc # "idle" /\ top_n >= vocab_size) =>
        /\ ppc = "returned"
        /\ preds = preds_in
        /\ p = preds_in
        /\ c + 1 \in NonZero(preds_in.num)
        /\ \A k \in NonZero(preds_in.num) :
            \E r \in pick_top_n(preds_in, vocab_size, top_n) :
                r.ppc = "returned" /\ r.c = k - 1

\* The least likely of three possible indices has been returned.
C17_Witness ==
    /\ ppc = "returned" /\ top_n > vocab_size /\ vocab_size = 4
    /\ Cardinality(NonZero(preds_in.num)) = 3
    /\ preds_in.num[c + 1] = 1
    /\ \A k \in NonZero(preds_in.num) : k # c + 1 => preds_in.num[k] = 2

\* C26: after a call with top_n >= 1 the caller's array holds 0 wherever the input
\* was below its top_n-th largest value and the input's own value wherever it was
\* above; every entry is 0 or the input's, at most top_n are not 0, and the array
\* is not renormalised: the distribution drawn from is another array, with the
\* caller's entries over their sum.
C26_InPlaceZeroing ==
    (ppc # "idle" /\ top_n >= 1) =>
        \A kept \in {Min(top_n, vocab_size)} :
        \A nth \in {NthLargest(preds_in.num, kept)} :
            /\ Len(preds.num) = vocab_size
            /\ preds.den = preds_in.den
            /\ \A k \in 1..vocab_size :
                /\ preds.num[k] \in {0, preds_in.num[k]}
                /\ preds_in.num[k] < nth => preds.num[k] = 0
                /\ preds_in.num[k] > nth => preds.num[k] = preds_in.num[k]
            /\ Cardinality(NonZero(preds.num)) <= kept
            /\ Cardinality({k \in 1..vocab_size : preds.num[k] = preds_in.num[k]}) >= kept
            /\ p.num = preds.num /\ p.den = SeqSum(preds.num)

\* Two of four entries were zeroed in the caller's array, which no longer sums to 1.
C26_Witness ==
    /\ ppc = "returned" /\ top_n = 2 /\ vocab_size = 4
    /\ Cardinality(NonZero(preds_in.num)) = 4
    /\ Cardinality(NonZero(preds.num)) = 2
    /\ preds.den = preds_in.den /\ SeqSum(preds.num) < preds.den
    /\ p # preds

\* ------------------------------------------------------ every feed: properties
SampleCalls == {k \in 1..Len(calls) : calls[k].kind = "sample"}

\* C21: every validation call and every call sample makes has keep_prob = 1.0,
\* and every training call a keep probability below 1.
C21_KeepProb ==
    /\ \A k \in ValCalls : calls[k].keep_prob = KeepAll
    /\ \A k \in SampleCalls : calls[k].keep_prob = KeepAll
    /\ \A k \in TrainCalls : calls[k].keep_prob < KeepAll

\* A run that has ended with two checkpoints: validation calls at keep_prob 1.0
\* right after training calls at the training keep probability.
C21_Witness ==
    /\ tpc = "done" /\ Len(checkpoints) >= 2
    /\ \E k \in ValCalls :
        /\ k > 1 /\ calls[k - 1].kind = "train" /\ calls[k - 1].keep_prob = keep_prob
        /\ calls[k].keep_prob = KeepAll

\* ------------------------------------------------------- sample: properties
SampleOver == spc \notin {"idle", "prime", "generate"}
PrimeInVocab == \A k \in 1..Len(prime_arg) : InVocab(prime_arg[k])

\* C4: for a prime with every character in the vocabulary, sample returns a text
\* of length len(prime) + n_samples that starts with the prime argument.
C4_GenerationLength ==
    (SampleOver /\ PrimeInVocab) =>
        /\ spc = "returned"
        /\ Len(result) = Len(prime_arg) + n_samples
        /\ SubSeq(result, 1, Len(prime_arg)) = prime_arg

\* C14: when the prime argument holds a character that is not in the vocabulary,
\* the call ends in the error of the failed lookup (KeyError) and returns no text.
C14_UnknownCharacterFails ==
    (SampleOver /\ ~PrimeInVocab) => (spc = "KeyError" /\ result = <<>>)

LocalPrimeInVocab == \A k \in 1..Len(prime) : InVocab(prime[k])

ScopedCalls(k) ==
    [j \in 1..k |->
        [kind |-> "sample", phase |-> IF j <= 3 THEN "prime" ELSE "gen",
         x |-> IF j <= 3 THEN vocab_to_int(<<"F", "a", "r">>[j]) ELSE picks[j - 3].c,
         keep_prob |-> KeepAll, state_in |-> IF j = 1 THEN ZeroState ELSE j - 1,
         state_out |-> j]]
ScopedText == <<"F", "a", "r">> \o [j \in 1..Len(picks) |-> int_to_vocab[picks[j].c + 1]]

C27_EmptyPrimeFails ==
    (notebook = "intro" /\ prime_arg = <<>> /\ spc # "idle") =>
        /\ spc \in {"prime", "UnboundLocalError"}
        /\ calls = <<>> /\ picks = <<>>
        /\ preds = NoArray /\ x = Unbound
        /\ samples = <<>> /\ result = <<>>

C27_Witness ==
    /\ notebook = "intro" /\ prime_arg = <<>> /\ n_samples = 2
    /\ spc = "UnboundLocalError" /\ calls = <<>> /\ result = <<>>

====
